---- MODULE Spec2Model ----
(***************************************************************************)
(* Model of scripts/generate-icon.py: the __main__ block that creates the  *)
(* output directory and calls draw_joycon_pair(18, ..) and                 *)
(* draw_joycon_pair(36, ..), and draw_joycon_pair itself: layout           *)
(* arithmetic, the twelve paint steps on the RGBA canvas, and the save.    *)
(***************************************************************************)
EXTENDS Integers, Sequences, FiniteSets, TLC

\* ------------------------------------------------------------------ bounds
\* Largest size the stand-alone renderer specification (SpecRender) draws.
MaxSize == 36

\* Number of times SpecRender invokes the renderer with the same arguments.
MaxCalls == 2

\* ------------------------------------------------------- program constants
\* line 21: scale = size / 18
Base == 18

\* the body fill with its alpha left at 0
color_clear == <<0, 0, 0, 0>>

\* line 35: color = (0, 0, 0, 255)
color == <<0, 0, 0, 255>>

\* line 37: transparent = (0, 0, 0, 0)
transparent == <<0, 0, 0, 0>>

\* lines 109, 110: the two sizes and the two file names of __main__
Size1x == 18

Size2x == 36

Name1x == "joycon-icon.png"

Name2x == "joycon-icon@2x.png"

\* A file the asset catalog directory may already hold; never written here.
OtherName == "Contents.json"

FileNames == {Name1x, Name2x, OtherName}

\* ------------------------------------------------------ layout arithmetic
\* int(c * scale) with c = cn/cd and scale = size/18.  int() truncates
\* toward zero; all operands are non-negative, so it is the floor of the
\* exact quotient (the float product agrees with it for every size used
\* here).
IntScaled(cn, cd, size) == (cn * size) \div (cd * Base)

\* the body width rounded up instead of cut off
jc_width_up(size) == (6 * size + Base - 1) \div Base

\* line 24
jc_width(size) == IntScaled(6, 1, size)

\* line 25
jc_height(size) == IntScaled(14, 1, size)

\* line 26
corner_radius(size) == IntScaled(2, 1, size)

\* the gap left at its base value, not scaled
gap_fixed(size) == IntScaled(1, 1, Base)

\* line 27
gap(size) == IntScaled(1, 1, size)

\* line 30
total_width(size) == jc_width(size) * 2 + gap(size)

\* line 31
start_x(size) == (size - total_width(size)) \div 2

\* line 32
start_y(size) == (size - jc_height(size)) \div 2

\* line 40
left_x(size) == start_x(size)

\* the right body placed without the gap
right_x_nogap(size) == start_x(size) + jc_width(size)

\* line 48
right_x(size) == start_x(size) + jc_width(size) + gap(size)

\* the stick radius rounded to the nearest integer
stick_radius_rounded(size) == (2 * 15 * size + 10 * Base) \div (2 * 10 * Base)

\* line 56
stick_radius(size) == IntScaled(15, 10, size)

\* the button half-size without its floor of 1
btn_size_unclamped(size) == IntScaled(8, 10, size)

\* line 68
btn_size(size) ==
    LET t == IntScaled(8, 10, size) IN IF t < 1 THEN 1 ELSE t

\* line 71
btn_offset(size) == IntScaled(15, 10, size)

\* lines 60, 70, 79, 88: int(4 * scale)
stick_drop(size) == IntScaled(4, 1, size)

\* All the locals of one invocation of draw_joycon_pair.
Dims(size) ==
    [jc_width      |-> jc_width(size),
     jc_height     |-> jc_height(size),
     corner_radius |-> corner_radius(size),
     gap           |-> gap(size),
     total_width   |-> total_width(size),
     start_x       |-> start_x(size),
     start_y       |-> start_y(size),
     left_x        |-> left_x(size),
     right_x       |-> right_x(size),
     stick_radius  |-> stick_radius(size),
     btn_size      |-> btn_size(size),
     btn_offset    |-> btn_offset(size),
     stick_drop    |-> stick_drop(size)]

NoDims == Dims(0)

\* ------------------------------------------------------------------ shapes
\* A bounding box is <<x0, y0, x1, y1>>, both corners inclusive, as the
\* drawing calls take it.

\* lines 41-45
LeftBodyBox(d) ==
    <<d.left_x, d.start_y, d.left_x + d.jc_width, d.start_y + d.jc_height>>

\* lines 49-53
RightBodyBox(d) ==
    <<d.right_x, d.start_y, d.right_x + d.jc_width, d.start_y + d.jc_height>>

\* the box [cx - r, cy - r, cx + r, cy + r] of lines 62-63, 75, 81-82, 92
CircleBox(cx, cy, r) == <<cx - r, cy - r, cx + r, cy + r>>

\* lines 59-63
LeftStickBox(d) ==
    CircleBox(d.left_x + d.jc_width \div 2, d.start_y + d.stick_drop,
              d.stick_radius)

\* lines 78-82
RightStickBox(d) ==
    CircleBox(d.right_x + d.jc_width \div 2,
              d.start_y + d.jc_height - d.stick_drop, d.stick_radius)

\* lines 73, 90: the four (dx, dy) of the button loops, in loop order
BtnDeltas(d) ==
    << <<0, 0 - d.btn_offset>>, <<0, d.btn_offset>>,
       <<0 - d.btn_offset, 0>>, <<d.btn_offset, 0>> >>

\* lines 69-70, 74-75: the i-th d-pad button of the left body
LeftBtnBox(d, i) ==
    CircleBox(d.left_x + d.jc_width \div 2 + BtnDeltas(d)[i][1],
              d.start_y + d.jc_height - d.stick_drop + BtnDeltas(d)[i][2],
              d.btn_size)

\* lines 87-88, 91-92: the i-th face button of the right body
RightBtnBox(d, i) ==
    CircleBox(d.right_x + d.jc_width \div 2 + BtnDeltas(d)[i][1],
              d.start_y + d.stick_drop + BtnDeltas(d)[i][2],
              d.btn_size)

InBox(p, b) == b[1] <= p[1] /\ p[1] <= b[3] /\ b[2] <= p[2] /\ p[2] <= b[4]

\* Pixels filled by draw.rounded_rectangle(box, radius=r): the box minus
\* what lies outside the quarter circles of radius r in its four corners.
InRounded(p, b, r) ==
    /\ InBox(p, b)
    /\ LET ex == IF p[1] < b[1] + r THEN b[1] + r - p[1]
                 ELSE IF p[1] > b[3] - r THEN p[1] - (b[3] - r) ELSE 0
           ey == IF p[2] < b[2] + r THEN b[2] + r - p[2]
                 ELSE IF p[2] > b[4] - r THEN p[2] - (b[4] - r) ELSE 0
       IN  ex = 0 \/ ey = 0 \/ ex * ex + ey * ey <= r * r

\* Pixels filled by draw.ellipse(box): pixel centres inside the circle
\* inscribed in the (inclusive) box.
InEllipse(p, b) ==
    /\ InBox(p, b)
    /\ LET dx == 2 * p[1] - b[1] - b[3]
           dy == 2 * p[2] - b[2] - b[4]
           dm == b[3] - b[1] + 1
       IN  dx * dx + dy * dy <= dm * dm

\* A paint step as it is logged: which body, which kind, box, radius, fill.
Shape(side, kind, box, r, fill) ==
    [side |-> side, kind |-> kind, box |-> box, r |-> r, fill |-> fill]

Covers(s, p) ==
    IF s.kind = "body" THEN InRounded(p, s.box, s.r) ELSE InEllipse(p, s.box)

\* ------------------------------------------------------------------ canvas
\* line 17: Image.new('RGBA', (size, size), (0, 0, 0, 0))
Blank(size) ==
    [w  |-> size,
     h  |-> size,
     px |-> [p \in (0 .. size - 1) \X (0 .. size - 1) |-> transparent]]

\* a paint step that composites by alpha: a transparent fill changes nothing
PaintBlend(im, s) ==
    [im EXCEPT !.px = [p \in DOMAIN im.px |->
                          IF Covers(s, p) /\ s.fill[4] # 0 THEN s.fill ELSE im.px[p]]]

Paint(im, s) ==
    [im EXCEPT !.px = [p \in DOMAIN im.px |->
                          IF Covers(s, p) THEN s.fill ELSE im.px[p]]]

\* line 94: the lossless RGBA encoding of the canvas, row by row
Encode(im) ==
    [width  |-> im.w,
     height |-> im.h,
     mode   |-> "RGBA",
     rows   |-> [y \in 1 .. im.h |-> [x \in 1 .. im.w |-> im.px[<<x - 1, y - 1>>]]]]

\* What a file holds after a write that failed part way.
Partial == [width |-> 0, height |-> 0, mode |-> "RGBA", rows |-> << >>]

\* What a file left by some earlier, unrelated generation may hold.
Stale ==
    [width |-> 1, height |-> 1, mode |-> "RGBA", rows |-> << <<color>> >>]

\* a write that appends to what the file already holds
WriteFileAppend(fs, name, content) ==
    [f \in (DOMAIN fs) \cup {name} |->
        IF f # name THEN fs[f]
        ELSE IF name \in DOMAIN fs
             THEN [content EXCEPT !.rows = fs[name].rows \o content.rows]
             ELSE content]

\* line 94: open(filename, "wb") + write: the file holds the new content,
\* whatever it held before
WriteFile(fs, name, content) ==
    [f \in (DOMAIN fs) \cup {name} |-> IF f = name THEN content ELSE fs[f]]

\* ------------------------------------------------------------------- state
VARIABLES
    pc,        \* position of __main__ (or "harness" in SpecRender)
    dirExists, \* the output directory exists
    files,     \* content of each file of the output directory
    created,   \* os.makedirs of this run created the directory
    rpc,       \* position inside draw_joycon_pair
    size,      \* argument of the running invocation
    filename,  \* argument of the running invocation
    img,       \* the canvas of the running invocation
    dims,      \* the locals of the running invocation
    bi,        \* index of the running button loop
    calls,     \* invocations started, in order
    used,      \* canvas side and dims of each invocation, in order
    painted,   \* paint steps of the running invocation, in order
    written    \* names of the files saved, in order

vars == <<pc, dirExists, files, created, rpc, size, filename, img, dims, bi,
          calls, used, painted, written>>

mainVars == <<pc, dirExists, files, created>>

localVars == <<size, filename, img, dims, bi>>

logVars == <<calls, used, painted, written>>

\* The directory contents the program may find: no directory, or a
\* directory holding any of the three files from earlier.
InitialFiles == {[f \in S |-> Stale] : S \in SUBSET FileNames}

Init ==
    /\ pc = "makedirs"
    /\ dirExists \in BOOLEAN
    /\ files \in InitialFiles
    /\ (~dirExists => DOMAIN files = {})
    /\ created = FALSE
    /\ rpc = "idle"
    /\ size = 0
    /\ filename = ""
    /\ img = Blank(0)
    /\ dims = NoDims
    /\ bi = 1
    /\ calls = << >>
    /\ used = << >>
    /\ painted = << >>
    /\ written = << >>

\* ------------------------------------------------------------------ __main__
\* line 106: os.makedirs(base_path, exist_ok=True)
Makedirs ==
    /\ pc = "makedirs"
    /\ \/ /\ dirExists
          /\ pc' = "call18"
          /\ UNCHANGED <<dirExists, created>>
       \/ /\ ~dirExists
          /\ dirExists' = TRUE
          /\ created' = TRUE
          /\ pc' = "call18"
       \/ /\ ~dirExists
          /\ pc' = "error"
          /\ UNCHANGED <<dirExists, created>>
    /\ UNCHANGED <<files, rpc>>
    /\ UNCHANGED localVars
    /\ UNCHANGED logVars

\* entering draw_joycon_pair(s, name)
Enter(s, name) ==
    /\ rpc' = "new"
    /\ size' = s
    /\ filename' = name
    /\ calls' = Append(calls, [size |-> s, filename |-> name])
    /\ painted' = << >>
    /\ bi' = 1
    /\ UNCHANGED <<img, dims, used, written, dirExists, files, created>>

\* line 109
Call18 ==
    /\ pc = "call18"
    /\ pc' = "in18"
    /\ Enter(Size1x, Name1x)

\* the second call made with the arguments of the first
Call36Again ==
    /\ pc = "call36"
    /\ pc' = "in36"
    /\ Enter(Size1x, Name1x)

\* line 110
Call36 ==
    /\ pc = "call36"
    /\ pc' = "in36"
    /\ Enter(Size2x, Name2x)

\* draw_joycon_pair returns to line 109 or to line 110
Return ==
    /\ rpc = "ret"
    /\ \/ pc = "in18" /\ pc' = "call36"
       \/ pc = "in36" /\ pc' = "done"
    /\ rpc' = "idle"
    /\ UNCHANGED <<dirExists, files, created>>
    /\ UNCHANGED localVars
    /\ UNCHANGED logVars

\* --------------------------------------------------------- draw_joycon_pair
\* one paint call: the shape is rasterised onto the canvas and logged
Draw(s, next) ==
    /\ img' = Paint(img, s)
    /\ painted' = Append(painted, s)
    /\ rpc' = next
    /\ UNCHANGED <<size, filename, dims, calls, used, written>>
    /\ UNCHANGED mainVars

\* lines 17-18
NewImage ==
    /\ rpc = "new"
    /\ img' = Blank(size)
    /\ rpc' = "dims"
    /\ UNCHANGED <<size, filename, dims, bi>>
    /\ UNCHANGED mainVars
    /\ UNCHANGED logVars

\* lines 21-32 and the measurements of lines 40, 48, 56, 68-71
ComputeDims ==
    /\ rpc = "dims"
    /\ dims' = Dims(size)
    /\ used' = Append(used, [side |-> img.w, dims |-> Dims(size)])
    /\ rpc' = "left_body"
    /\ UNCHANGED <<size, filename, img, bi, calls, painted, written>>
    /\ UNCHANGED mainVars

\* lines 41-45
DrawLeftBody ==
    /\ rpc = "left_body"
    /\ Draw(Shape("left", "body", LeftBodyBox(dims), dims.corner_radius, color),
            "right_body")
    /\ UNCHANGED bi

\* lines 49-53
DrawRightBody ==
    /\ rpc = "right_body"
    /\ Draw(Shape("right", "body", RightBodyBox(dims), dims.corner_radius, color),
            "left_stick")
    /\ UNCHANGED bi

\* lines 61-65
DrawLeftStick ==
    /\ rpc = "left_stick"
    /\ Draw(Shape("left", "stick", LeftStickBox(dims), dims.stick_radius,
                  transparent), "left_btns")
    /\ UNCHANGED bi

\* lines 73-75: one iteration of the d-pad loop
DrawLeftButton ==
    /\ rpc = "left_btns"
    /\ Draw(Shape("left", "button", LeftBtnBox(dims, bi), dims.btn_size,
                  transparent),
            IF bi < Len(BtnDeltas(dims)) THEN "left_btns" ELSE "right_stick")
    /\ bi' = IF bi < Len(BtnDeltas(dims)) THEN bi + 1 ELSE 1

\* lines 80-84
DrawRightStick ==
    /\ rpc = "right_stick"
    /\ Draw(Shape("right", "stick", RightStickBox(dims), dims.stick_radius,
                  transparent), "right_btns")
    /\ UNCHANGED bi

\* lines 90-92: one iteration of the face button loop
DrawRightButton ==
    /\ rpc = "right_btns"
    /\ Draw(Shape("right", "button", RightBtnBox(dims, bi), dims.btn_size,
                  transparent),
            IF bi < Len(BtnDeltas(dims)) THEN "right_btns" ELSE "save")
    /\ bi' = IF bi < Len(BtnDeltas(dims)) THEN bi + 1 ELSE 1

\* an exception that is caught and ignored by the caller
PropagateSwallowed(p) ==
    IF p = "in18" THEN "call36" ELSE IF p = "in36" THEN "done" ELSE p

\* where an exception raised inside draw_joycon_pair leaves __main__:
\* nothing catches it, the process ends with a traceback
Propagate(p) == IF p \in {"in18", "in36"} THEN "error" ELSE p

\* lines 94-95: img.save(filename, 'PNG') and the confirmation line.
\* The save succeeds only in an existing directory; when it raises, the
\* file is untouched (open failed) or holds a partial image (write failed).
Save ==
    /\ rpc = "save"
    /\ \/ /\ dirExists
          /\ files' = WriteFile(files, filename, Encode(img))
          /\ written' = Append(written, filename)
          /\ rpc' = "ret"
          /\ pc' = pc
       \/ /\ rpc' = "raised"
          /\ pc' = Propagate(pc)
          /\ UNCHANGED <<files, written>>
       \/ /\ dirExists
          /\ rpc' = "raised"
          /\ pc' = Propagate(pc)
          /\ files' = WriteFile(files, filename, Partial)
          /\ UNCHANGED written
    /\ UNCHANGED <<dirExists, created, calls, used, painted>>
    /\ UNCHANGED localVars

Render ==
    \/ NewImage
    \/ ComputeDims
    \/ DrawLeftBody
    \/ DrawRightBody
    \/ DrawLeftStick
    \/ DrawLeftButton
    \/ DrawRightStick
    \/ DrawRightButton
    \/ Save

Next ==
    \/ Makedirs
    \/ Call18
    \/ Call36
    \/ Return
    \/ Render

Spec == Init /\ [][Next]_vars

\* ------------------------------------------ the renderer called on its own
\* draw_joycon_pair(size, filename) for any size of 1 .. MaxSize, called
\* MaxCalls times in a row with the same arguments.
InitRender ==
    /\ pc = "harness"
    /\ dirExists \in BOOLEAN
    /\ files \in InitialFiles
    /\ (~dirExists => DOMAIN files = {})
    /\ OtherName \notin DOMAIN files
    /\ created = FALSE
    /\ rpc = "new"
    /\ size \in 1 .. MaxSize
    /\ filename \in {Name1x, Name2x}
    /\ (DOMAIN files) \subseteq {filename}
    /\ img = Blank(0)
    /\ dims = NoDims
    /\ bi = 1
    /\ calls = << [size |-> size, filename |-> filename] >>
    /\ used = << >>
    /\ painted = << >>
    /\ written = << >>

Reinvoke ==
    /\ pc = "harness"
    /\ rpc = "ret"
    /\ Len(calls) < MaxCalls
    /\ pc' = pc
    /\ Enter(size, filename)

NextRender ==
    \/ Reinvoke
    \/ Render

SpecRender == InitRender /\ [][NextRender]_vars

\* ------------------------------------------------------------ properties
\* the measurements of the running invocation have been computed
Computed == rpc \notin {"idle", "new", "dims"}

\* the running invocation has made all of its paint calls
PaintDone == rpc \in {"save", "ret", "raised"}

IsPrefix(s, t) == Len(s) <= Len(t) /\ \A i \in 1 .. Len(s) : s[i] = t[i]

TargetNames == {"joycon-icon.png", "joycon-icon@2x.png"}

TwoCalls ==
    << [size |-> 18, filename |-> "joycon-icon.png"],
       [size |-> 36, filename |-> "joycon-icon@2x.png"] >>

\* the order of a run, without what it says of the directory's final content
RunOrder ==
    /\ IsPrefix(calls, TwoCalls)
    /\ IsPrefix(written, <<"joycon-icon.png", "joycon-icon@2x.png">>)
    /\ Len(written) <= Len(calls)
    /\ (calls # << >> => dirExists /\ pc \notin {"makedirs", "call18"})
    /\ (pc = "done" =>
          /\ calls = TwoCalls
          /\ written = <<"joycon-icon.png", "joycon-icon@2x.png">>
          /\ TargetNames \subseteq DOMAIN files
          /\ files["joycon-icon.png"].width = 18
          /\ files["joycon-icon@2x.png"].width = 36)

\* C1 as stated: a run creates the directory before any write, calls the
\* renderer with (18, joycon-icon.png) then (36, joycon-icon@2x.png), and a
\* successful run leaves exactly these two files in the output directory,
\* each written once.
C1_ExactlyTwoFiles ==
    /\ RunOrder
    /\ (pc = "done" => DOMAIN files = TargetNames)

\* C1 amended: the same order and the same two writes, and a successful run
\* leaves these two files in the output directory beside the files the
\* directory already held, which no step creates, changes or removes.
C1_RunOrder ==
    /\ []RunOrder
    /\ [][/\ (files' # files => dirExists /\ pc \in {"in18", "in36"})
          /\ \A f \in FileNames \ TargetNames :
                /\ (f \in DOMAIN files) = (f \in DOMAIN files')
                /\ (f \in DOMAIN files => files'[f] = files[f])]_vars

C1_Witness ==
    /\ pc = "done"
    /\ Len(written) = 2
    /\ DOMAIN files = TargetNames \cup {"Contents.json"}

\* C2: an I/O failure ends the run in the error state at once; a failed
\* makedirs starts no render and writes nothing, a failed first save is
\* followed by no second render, a failed second save leaves the first
\* file as written, and nothing happens after the error.
C2_FailureIsTerminal ==
    /\ [](rpc = "raised" => pc = "error")
    /\ [](pc = "error" =>
            \/ calls = << >> /\ written = << >> /\ ~dirExists /\ rpc = "idle"
            \/ Len(calls) = Len(written) + 1 /\ rpc = "raised")
    /\ [](pc = "error" /\ Len(calls) = 2 =>
            /\ "joycon-icon.png" \in DOMAIN files
            /\ files["joycon-icon.png"].width = 18
            /\ Len(files["joycon-icon.png"].rows) = 18)
    /\ [][/\ (pc = "error" => pc' = "error" /\ files' = files /\ calls' = calls)
          /\ (pc = "makedirs" /\ pc' = "error" => files' = files)
          /\ (pc = "in36" /\ pc' = "error" =>
                files'["joycon-icon.png"] = files["joycon-icon.png"])]_vars

C2_Witness ==
    /\ pc = "error"
    /\ written = <<"joycon-icon.png">>
    /\ Len(calls) = 2
    /\ "joycon-icon@2x.png" \in DOMAIN files
    /\ files["joycon-icon@2x.png"] = Partial

\* C3: a second invocation with the same size and path ends with the same
\* canvas as the first, and its save leaves the file as the first save
\* left it.
C3_Idempotent ==
    [][(rpc = "save" /\ rpc' = "ret" /\ Len(written) >= 1) =>
          /\ calls[Len(calls)] = calls[1]
          /\ Encode(img) = files[filename]
          /\ files'[filename] = files[filename]]_vars

C3_Witness == rpc = "ret" /\ Len(calls) = 2 /\ Len(written) = 2

\* C4: for every size the two bodies and the gap fit in the canvas width
\* and the horizontal start offset is not negative.
C4_PairFits ==
    Computed => dims.jc_width * 2 + dims.gap <= size /\ dims.start_x >= 0

C4_Witness == Computed /\ size = 18 /\ dims.jc_width * 2 + dims.gap = 13

\* C5: for every size the button half-size is an integer of at least 1,
\* also as passed to the eight button cutouts, and every other measurement
\* is a non-negative integer.
C5_Measurements ==
    /\ Computed =>
          /\ dims.btn_size \in Nat /\ dims.btn_size >= 1
          /\ \A k \in {"jc_width", "jc_height", "corner_radius", "gap",
                       "start_x", "start_y", "stick_radius", "btn_offset"} :
                dims[k] \in Nat
    /\ \A i \in 1 .. Len(painted) :
          painted[i].kind = "button" =>
             /\ painted[i].r >= 1
             /\ painted[i].box[3] - painted[i].box[1] = 2 * painted[i].r
             /\ painted[i].box[4] - painted[i].box[2] = 2 * painted[i].r

C5_Witness ==
    /\ size = 1
    /\ PaintDone
    /\ Cardinality({i \in 1 .. Len(painted) : painted[i].kind = "button"}) = 8

\* v is an integer nearest to (cn/cd) * size/18, whatever the tie rule
Nearest(v, cn, cd) ==
    LET d == 2 * (v * cd * 18 - cn * size) IN d <= cd * 18 /\ 0 - d <= cd * 18

\* v is (cn/cd) * size/18 with its fraction dropped
Truncated(v, cn, cd) == v * cd * 18 <= cn * size /\ cn * size < (v + 1) * cd * 18

\* C6 as stated: every measurement is its ratio times size/18 rounded to
\* the nearest integer (the button half-size at least 1).
C6_Rounded ==
    Computed =>
       /\ Nearest(dims.jc_width, 6, 1)
       /\ Nearest(dims.jc_height, 14, 1)
       /\ Nearest(dims.corner_radius, 2, 1)
       /\ Nearest(dims.gap, 1, 1)
       /\ Nearest(dims.stick_radius, 15, 10)
       /\ Nearest(dims.btn_offset, 15, 10)
       /\ \/ Nearest(dims.btn_size, 8, 10) /\ dims.btn_size >= 1
          \/ dims.btn_size = 1 /\ \E v \in {0 - 1, 0} : Nearest(v, 8, 10)

\* C6 amended: every measurement is its ratio times size/18 with the
\* fraction dropped (the button half-size at least 1).
C6_Truncated ==
    Computed =>
       /\ Truncated(dims.jc_width, 6, 1)
       /\ Truncated(dims.jc_height, 14, 1)
       /\ Truncated(dims.corner_radius, 2, 1)
       /\ Truncated(dims.gap, 1, 1)
       /\ Truncated(dims.stick_radius, 15, 10)
       /\ Truncated(dims.btn_offset, 15, 10)
       /\ \/ Truncated(dims.btn_size, 8, 10) /\ dims.btn_size >= 1
          \/ dims.btn_size = 1 /\ Truncated(0, 8, 10)

C6_Witness ==
    /\ Computed
    /\ size = 36
    /\ dims.btn_size = 1
    /\ ~Nearest(dims.btn_size, 8, 10)

\* C7: the canvas of the second render has twice the side of the first
\* (18, 36), and body width, body height, gap and corner radius of the
\* second are twice those of the first.
C7_Doubles ==
    Len(used) = 2 =>
       /\ used[1].side = 18
       /\ used[2].side = 36
       /\ used[2].dims.jc_width = 2 * used[1].dims.jc_width
       /\ used[2].dims.jc_height = 2 * used[1].dims.jc_height
       /\ used[2].dims.gap = 2 * used[1].dims.gap
       /\ used[2].dims.corner_radius = 2 * used[1].dims.corner_radius

C7_Witness == Len(used) = 2 /\ used[2].dims.jc_width = 12

\* C8: the size 18 render into a directory that did not exist leaves the
\* directory holding one file, an 18 x 18 image with a pixel that is not
\* fully transparent.
C8_FreshRun18 ==
    (created /\ pc = "call36") =>
       /\ dirExists
       /\ DOMAIN files = {"joycon-icon.png"}
       /\ LET f == files["joycon-icon.png"] IN
             /\ f.width = 18 /\ f.height = 18
             /\ Len(f.rows) = 18
             /\ \A y \in 1 .. 18 : Len(f.rows[y]) = 18
             /\ \E y \in 1 .. 18 : \E x \in 1 .. 18 : f.rows[y][x][4] # 0

C8_Witness == created /\ pc = "call36" /\ Len(written) = 1

PaintOrder ==
    << <<"left", "body">>, <<"right", "body">>, <<"left", "stick">>,
       <<"left", "button">>, <<"left", "button">>, <<"left", "button">>,
       <<"left", "button">>, <<"right", "stick">>, <<"right", "button">>,
       <<"right", "button">>, <<"right", "button">>, <<"right", "button">> >>

\* C9: the paint steps of a render are the two opaque bodies, left then
\* right, followed by the ten transparent cutouts in their fixed order; in
\* the finished canvas every pixel under a cutout is (0,0,0,0) and every
\* pixel under a body and under no cutout is (0,0,0,255).
C9_PaintOrder ==
    /\ Len(painted) <= 12
    /\ \A i \in 1 .. Len(painted) :
          /\ <<painted[i].side, painted[i].kind>> = PaintOrder[i]
          /\ painted[i].fill = IF i <= 2 THEN <<0, 0, 0, 255>> ELSE <<0, 0, 0, 0>>
    /\ PaintDone =>
          /\ Len(painted) = 12
          /\ \A p \in DOMAIN img.px :
                LET cut  == \E i \in 3 .. 12 : Covers(painted[i], p)
                    body == \E i \in 1 .. 2 : Covers(painted[i], p)
                IN  /\ cut => img.px[p] = <<0, 0, 0, 0>>
                    /\ (body /\ ~cut) => img.px[p] = <<0, 0, 0, 255>>

C9_Witness ==
    /\ rpc = "ret"
    /\ size = 36
    /\ \E p \in DOMAIN img.px :
          /\ Covers(painted[1], p) /\ Covers(painted[3], p)
          /\ img.px[p] = <<0, 0, 0, 0>>

Inside(a, b) == b[1] <= a[1] /\ a[3] <= b[3] /\ b[2] <= a[2] /\ a[4] <= b[4]

\* C10: at sizes 18 and 36 both body boxes lie inside the canvas, the
\* column ranges of the two bodies are disjoint, and the box of every
\* cutout lies inside the box of the body of its own side.
C10_Boxes ==
    \A i \in 1 .. Len(painted) :
       /\ size \in {18, 36}
       /\ painted[i].kind = "body" =>
             Inside(painted[i].box, <<0, 0, size - 1, size - 1>>)
       /\ (i = 2 => painted[1].box[3] < painted[2].box[1])
       /\ painted[i].kind # "body" =>
             Inside(painted[i].box,
                    painted[IF painted[i].side = "left" THEN 1 ELSE 2].box)

C10_Witness ==
    /\ Len(painted) = 12
    /\ size = 36
    /\ painted[1].box = <<5, 4, 17, 32>>
    /\ painted[2].box = <<19, 4, 31, 32>>

====
